---- MODULE Spec2Model ----
(***************************************************************************)
(* RawMemory<T> and Vector<T> of src/src/vector.h as a state machine.      *)
(*                                                                         *)
(* The heap is a map from addresses to arrays of slots.  A slot records    *)
(* whether an object of type T currently lives in it (its lifetime has     *)
(* begun by a constructor and has not been ended by a destructor) and the  *)
(* value its bytes hold.  Two Vector objects, A and B, are operated on.    *)
(* Every public operation is one action; the element operations it makes   *)
(* (constructor, assignment, destructor calls) are applied in program      *)
(* order to a working copy `w` of the state.  An element operation that    *)
(* may throw does so when the injected failure index says so.              *)
(***************************************************************************)
EXTENDS Integers, Sequences, FiniteSets, TLC

VARIABLES vec, heap, traits, last, appended

vars == <<vec, heap, traits, last, appended>>

(* The largest capacity a Vector reaches in a program with one Vector,     *)
(* and in a program with two.                                              *)
MaxCap == 4
PairCap == 2

(* The two Vector objects of the program. *)
Vec == {"A", "B"}

(* Element values: "d" is the value-initialized value T(). *)
DefaultVal == "d"
Val == {"d", "x"}

(* The value left in an object that has been moved from. *)
MovedVal == "moved"

(* nullptr, and the addresses operator new can return: one buffer per      *)
(* Vector plus the one temporary buffer an operation holds.                *)
Null == 0
Addr == 1 .. (Cardinality(Vec) + 1)

(* Raw, uninitialized storage for one element. *)
RawSlot == [live |-> FALSE, val |-> "raw"]

(* What an operation can commit that makes its behaviour undefined, or    *)
(* aborts it.                                                              *)
Undefined == {"assign_dead", "read_dead", "destroy_dead", "assert", "double_free"}

(* A rule that moves whatever the traits of T are. *)
UseMoveAlways(tr) == TRUE

(* `if constexpr (is_nothrow_move_constructible_v<T> ||                    *)
(*                !is_copy_constructible_v<T>)`                            *)
UseMove(tr) == tr.nothrow_move \/ ~tr.copyable

(***************************************************************************)
(* The working state of a running operation.                               *)
(*   vec, h   the Vector objects and the heap                              *)
(*   tr       the traits of T                                              *)
(*   f        countdown to the injected exception (0: none pending)        *)
(*   thrown   an exception is propagating                                  *)
(*   errs     lifetime violations and failed assertions so far             *)
(*   ret      the index the returned iterator refers to, and its buffer    *)
(***************************************************************************)
Start(f) ==
    [vec |-> vec, h |-> heap, tr |-> traits, f |-> f, thrown |-> FALSE,
     errs |-> {}, ret |-> [buf |-> Null, idx |-> 0]]

NoRet == [buf |-> Null, idx |-> 0]

(* One element operation that can throw. *)
Tick(w) ==
    IF w.f = 1 THEN [w EXCEPT !.f = 0, !.thrown = TRUE]
    ELSE IF w.f > 1 THEN [w EXCEPT !.f = @ - 1]
    ELSE w

MayThrow(w, can) == IF can THEN Tick(w) ELSE w

Flag(w, cond, e) == IF cond THEN [w EXCEPT !.errs = @ \cup {e}] ELSE w

Slot(w, a, i) == w.h[a][i + 1]

(* operator new(n * sizeof(T)) for n # 0: the lowest free address. *)
FreeAddr(w) == CHOOSE a \in Addr : w.h[a] = <<>> /\ \A b \in Addr : b < a => w.h[b] # <<>>

Allocate(w, n) ==
    IF n = 0 THEN [w |-> w, buf |-> Null]
    ELSE LET w1 == Tick(w) IN
         IF w1.thrown THEN [w |-> w1, buf |-> Null]
         ELSE LET a == FreeAddr(w1) IN
              [w |-> [w1 EXCEPT !.h[a] = [i \in 1 .. n |-> RawSlot]], buf |-> a]

(* operator delete(buf): objects still alive in the buffer are leaked;    *)
(* deleting a buffer that is not allocated is undefined.                   *)
Deallocate(w, a) ==
    IF a = Null THEN w
    ELSE IF w.h[a] = <<>> THEN Flag(w, TRUE, "double_free")
    ELSE [Flag(w, \E i \in 1 .. Len(w.h[a]) : w.h[a][i].live, "release_live")
            EXCEPT !.h[a] = <<>>]

(* RawMemory::operator+ and operator[]: the assertions. *)
RawPlus(w, cap, offset) == Flag(w, ~(offset <= cap), "assert")
RawIndex(w, cap, index) == Flag(w, ~(index < cap), "assert")

(* new (p) T(value) *)
ConstructAt(w, a, i, v, can) ==
    LET w1 == MayThrow(w, can) IN
    IF w1.thrown THEN w1
    ELSE [Flag(w1, Slot(w1, a, i).live, "construct_live")
            EXCEPT !.h[a][i + 1] = [live |-> TRUE, val |-> v]]

(* p->~T() *)
DestroyAt(w, a, i) ==
    [Flag(w, ~Slot(w, a, i).live, "destroy_dead") EXCEPT !.h[a][i + 1] = RawSlot]

(* new (dst) T(src) *)
CopyConstruct(w, sa, si, da, di) ==
    ConstructAt(Flag(w, ~Slot(w, sa, si).live, "read_dead"),
                da, di, Slot(w, sa, si).val, TRUE)

(* new (dst) T(std::move(src)) *)
MoveConstruct(w, sa, si, da, di) ==
    LET w1 == ConstructAt(Flag(w, ~Slot(w, sa, si).live, "read_dead"),
                          da, di, Slot(w, sa, si).val, ~w.tr.nothrow_move) IN
    IF w1.thrown THEN w1 ELSE [w1 EXCEPT !.h[sa][si + 1].val = MovedVal]

\* *p = value.  Assigning to storage that holds no object is undefined; where
\* the program goes on, the bytes written are used as an object from then on.
AssignValue(w, a, i, v, can) ==
    LET w1 == MayThrow(w, can) IN
    IF w1.thrown THEN w1
    ELSE [Flag(w1, ~Slot(w1, a, i).live, "assign_dead")
            EXCEPT !.h[a][i + 1] = [live |-> TRUE, val |-> v]]

\* *dst = *src
CopyAssign(w, sa, si, da, di) ==
    AssignValue(Flag(w, ~Slot(w, sa, si).live, "read_dead"),
                da, di, Slot(w, sa, si).val, TRUE)

\* *dst = std::move( *src )
MoveAssign(w, sa, si, da, di) ==
    LET w1 == AssignValue(Flag(w, ~Slot(w, sa, si).live, "read_dead"),
                          da, di, Slot(w, sa, si).val, ~w.tr.nothrow_move) IN
    IF w1.thrown \/ (sa = da /\ si = di) THEN w1
    ELSE [w1 EXCEPT !.h[sa][si + 1].val = MovedVal]

(* std::destroy_n(a + o, n) *)
RECURSIVE DestroyN(_, _, _, _)
DestroyN(w, a, o, n) ==
    IF n = 0 THEN w ELSE DestroyN(DestroyAt(w, a, o), a, o + 1, n - 1)

(* std::uninitialized_copy_n(sa + so, n, da + do): on an exception the     *)
(* objects already constructed are destroyed.                              *)
RECURSIVE UninitCopyFrom(_, _, _, _, _, _, _)
UninitCopyFrom(w, sa, so, n, da, do, k) ==
    IF k = n THEN w
    ELSE LET w1 == CopyConstruct(w, sa, so + k, da, do + k) IN
         IF w1.thrown THEN DestroyN(w1, da, do, k)
         ELSE UninitCopyFrom(w1, sa, so, n, da, do, k + 1)

UninitializedCopyN(w, sa, so, n, da, do) == UninitCopyFrom(w, sa, so, n, da, do, 0)

(* std::uninitialized_move_n *)
RECURSIVE UninitMoveFrom(_, _, _, _, _, _, _)
UninitMoveFrom(w, sa, so, n, da, do, k) ==
    IF k = n THEN w
    ELSE LET w1 == MoveConstruct(w, sa, so + k, da, do + k) IN
         IF w1.thrown THEN DestroyN(w1, da, do, k)
         ELSE UninitMoveFrom(w1, sa, so, n, da, do, k + 1)

UninitializedMoveN(w, sa, so, n, da, do) == UninitMoveFrom(w, sa, so, n, da, do, 0)

(* std::uninitialized_value_construct_n(a + o, n) *)
RECURSIVE UninitValueFrom(_, _, _, _, _)
UninitValueFrom(w, a, o, n, k) ==
    IF k = n THEN w
    ELSE LET w1 == ConstructAt(w, a, o + k, DefaultVal, TRUE) IN
         IF w1.thrown THEN DestroyN(w1, a, o, k)
         ELSE UninitValueFrom(w1, a, o, n, k + 1)

UninitializedValueConstructN(w, a, o, n) == UninitValueFrom(w, a, o, n, 0)

(* std::copy_n(sa + so, n, da + do): forward copy-assignment. *)
RECURSIVE CopyN(_, _, _, _, _, _)
CopyN(w, sa, so, n, da, do) ==
    IF n = 0 \/ w.thrown THEN w
    ELSE CopyN(CopyAssign(w, sa, so, da, do), sa, so + 1, n - 1, da, do + 1)

(* std::move(first, last, d_first) within one buffer: forward move-assign. *)
RECURSIVE StdMove(_, _, _, _, _)
StdMove(w, a, first, lst, dfirst) ==
    IF first >= lst \/ w.thrown THEN w
    ELSE StdMove(MoveAssign(w, a, first, a, dfirst), a, first + 1, lst, dfirst + 1)

(* A move_backward that walks forward through the overlapping ranges. *)
MoveBackwardForward(w, a, first, lst, dlast) ==
    StdMove(w, a, first, lst, dlast - (lst - first))

(* std::move_backward(first, last, d_last) within one buffer. *)
RECURSIVE MoveBackward(_, _, _, _, _)
MoveBackward(w, a, first, lst, dlast) ==
    IF first >= lst \/ w.thrown THEN w
    ELSE MoveBackward(MoveAssign(w, a, lst - 1, a, dlast - 1), a, first, lst - 1, dlast - 1)

(* A CopyData that moves whatever the traits of T are. *)
CopyDataAlwaysMove(w, sa, so, count, da, do) ==
    UninitializedMoveN(w, sa, so, count, da, do)

(* Vector::CopyData *)
CopyData(w, sa, so, count, da, do) ==
    IF UseMove(w.tr) THEN UninitializedMoveN(w, sa, so, count, da, do)
    ELSE UninitializedCopyN(w, sa, so, count, da, do)


Size(w, v) == w.vec[v].size_
Capacity(w, v) == w.vec[v].data_.capacity_
GetAddress(w, v) == w.vec[v].data_.buffer_

(* RawMemory() = default; and a Vector that is not constructed. *)
EmptyRaw == [buffer_ |-> Null, capacity_ |-> 0]
NoVector == [alive |-> FALSE, data_ |-> EmptyRaw, size_ |-> 0]

(* RawMemory(RawMemory&& other): copies buffer_ and capacity_; `other`     *)
(* keeps its own.  Returns the pair <<this, other>> after the construction. *)
RawMoveCtor(other) ==
    <<[buffer_ |-> other.buffer_, capacity_ |-> other.capacity_], other>>

(* A move assignment that copies buffer_ and capacity_ and keeps rhs. *)
RawMoveAssignCopies(this, rhs) ==
    <<[buffer_ |-> rhs.buffer_, capacity_ |-> rhs.capacity_], rhs>>

(* RawMemory& operator=(RawMemory&& rhs): swaps capacity_ and buffer_.     *)
(* Returns the pair <<this, rhs>> after the assignment.                    *)
RawMoveAssign(this, rhs) ==
    <<[buffer_ |-> rhs.buffer_, capacity_ |-> rhs.capacity_],
      [buffer_ |-> this.buffer_, capacity_ |-> this.capacity_]>>

(* RawMemory::Swap *)
RawSwap(this, other) ==
    <<[buffer_ |-> other.buffer_, capacity_ |-> other.capacity_],
      [buffer_ |-> this.buffer_, capacity_ |-> this.capacity_]>>

(* A growth by one slot. *)
GrownCapacityByOne(size) == size + 1

(* The growth of Emplace: `size_ == 0 ? 1 : size_ * 2`. *)
GrownCapacity(size) == IF size = 0 THEN 1 ELSE size * 2

(* `size_++; return &data_[offset];` unless an exception propagates. *)
EmplaceReturn(w, self, offset) ==
    IF w.thrown THEN w
    ELSE [RawIndex(w, Capacity(w, self), offset)
            EXCEPT !.vec[self].size_ = @ + 1,
                   !.ret = [buf |-> GetAddress(w, self), idx |-> offset]]

(* Emplace, `size_ < data_.Capacity()` and `pos == end()`. *)
EmplaceAtEnd(w, self, offset, val) ==
    ConstructAt(RawPlus(w, Capacity(w, self), offset),
                GetAddress(w, self), offset, val, TRUE)

(* Emplace, `size_ < data_.Capacity()` and pos before end(). *)
EmplaceInPlace(w, self, offset, val) ==
    LET size == Size(w, self)
        cap == Capacity(w, self)
        buf == GetAddress(w, self)
        w1 == Tick(w)
        w2 == IF w1.thrown THEN w1
              ELSE MoveConstruct(RawPlus(RawIndex(w1, cap, size - 1), cap, size),
                                 buf, size - 1, buf, size)
        w3 == IF w2.thrown THEN w2
              ELSE MoveBackward(RawIndex(w2, cap, size), buf, offset, size - 1, size)
    IN  IF w3.thrown THEN w3
        ELSE AssignValue(RawIndex(w3, cap, offset), buf, offset, val, ~w.tr.nothrow_move)

(* Emplace, the reallocation branch. *)
EmplaceRealloc(w, self, offset, val) ==
    LET size == Size(w, self)
        buf == GetAddress(w, self)
        ncap == GrownCapacity(size)
        al == Allocate(w, ncap)
        nb == al.buf
        w1 == ConstructAt(RawPlus(al.w, ncap, offset), nb, offset, val, TRUE)
        w2 == CopyData(w1, buf, 0, offset, nb, 0)
        w3 == CopyData(w2, buf, offset, size - offset, nb, offset + 1)
        w4 == DestroyN(w3, buf, 0, size)
        sw == RawSwap(w4.vec[self].data_, [buffer_ |-> nb, capacity_ |-> ncap])
    IN  IF al.w.thrown THEN al.w
        ELSE IF w1.thrown THEN Deallocate(w1, nb)
        ELSE IF w2.thrown THEN Deallocate(DestroyAt(RawPlus(w2, ncap, offset), nb, offset), nb)
        ELSE IF w3.thrown THEN Deallocate(DestroyN(w3, nb, 0, offset + 1), nb)
        ELSE Deallocate([w4 EXCEPT !.vec[self].data_ = sw[1]], sw[2].buffer_)

(* iterator Emplace(const_iterator pos, Args&&... args) *)
Emplace(w, self, offset, val) ==
    EmplaceReturn(
        IF Size(w, self) < Capacity(w, self)
        THEN IF offset = Size(w, self)
             THEN EmplaceAtEnd(w, self, offset, val)
             ELSE EmplaceInPlace(w, self, offset, val)
        ELSE EmplaceRealloc(w, self, offset, val),
        self, offset)

(* iterator Erase(const_iterator pos) *)
Erase(w, self, p) ==
    LET size == Size(w, self)
        cap == Capacity(w, self)
        buf == GetAddress(w, self)
        w1 == DestroyAt(w, buf, p)
        w2 == IF UseMove(w.tr)
              THEN StdMove(RawIndex(RawIndex(w1, cap, p + 1), cap, p), buf, p + 1, size, p)
              ELSE CopyN(RawIndex(w1, cap, p), buf, p + 1, size - (p + 1), buf, p)
    IN  IF w2.thrown THEN w2
        ELSE [RawIndex(w2, cap, p) EXCEPT !.vec[self].size_ = @ - 1,
                                          !.ret = [buf |-> buf, idx |-> p]]

(* A Reserve that returns early only for new_capacity < Capacity(). *)
ReserveStrict(w, self, new_capacity) ==
    LET size == Size(w, self)
        buf == GetAddress(w, self)
        al == Allocate(w, new_capacity)
        nb == al.buf
        w1 == CopyData(al.w, buf, 0, size, nb, 0)
        w2 == DestroyN(w1, buf, 0, size)
        sw == RawSwap(w2.vec[self].data_, [buffer_ |-> nb, capacity_ |-> new_capacity])
    IN  IF new_capacity < Capacity(w, self) THEN w
        ELSE IF al.w.thrown THEN al.w
        ELSE IF w1.thrown THEN Deallocate(w1, nb)
        ELSE Deallocate([w2 EXCEPT !.vec[self].data_ = sw[1]], sw[2].buffer_)

(* void Reserve(size_t new_capacity) *)
Reserve(w, self, new_capacity) ==
    LET size == Size(w, self)
        buf == GetAddress(w, self)
        al == Allocate(w, new_capacity)
        nb == al.buf
        w1 == CopyData(al.w, buf, 0, size, nb, 0)
        w2 == DestroyN(w1, buf, 0, size)
        sw == RawSwap(w2.vec[self].data_, [buffer_ |-> nb, capacity_ |-> new_capacity])
    IN  IF new_capacity <= Capacity(w, self) THEN w
        ELSE IF al.w.thrown THEN al.w
        ELSE IF w1.thrown THEN Deallocate(w1, nb)
        ELSE Deallocate([w2 EXCEPT !.vec[self].data_ = sw[1]], sw[2].buffer_)

(* A Resize that grows without constructing the new elements. *)
ResizeUnconstructed(w, self, new_size) ==
    LET size == Size(w, self)
        w1 == Reserve(w, self, new_size)
    IN  IF new_size = size THEN w
        ELSE IF new_size < size
        THEN [DestroyN(w, GetAddress(w, self), new_size, size - new_size)
                EXCEPT !.vec[self].size_ = new_size]
        ELSE IF w1.thrown THEN w1
        ELSE [w1 EXCEPT !.vec[self].size_ = new_size]

(* A Resize that sets size_ even when value-initialisation throws. *)
ResizeCommitsEarly(w, self, new_size) ==
    LET size == Size(w, self)
        w1 == Reserve(w, self, new_size)
        w2 == UninitializedValueConstructN(w1, GetAddress(w1, self), size, new_size - size)
    IN  IF new_size = size THEN w
        ELSE IF new_size < size
        THEN [DestroyN(w, GetAddress(w, self), new_size, size - new_size)
                EXCEPT !.vec[self].size_ = new_size]
        ELSE IF w1.thrown THEN w1
        ELSE [w2 EXCEPT !.vec[self].size_ = new_size]

(* void Resize(size_t new_size) *)
Resize(w, self, new_size) ==
    LET size == Size(w, self)
        w1 == Reserve(w, self, new_size)
        w2 == UninitializedValueConstructN(w1, GetAddress(w1, self), size, new_size - size)
    IN  IF new_size = size THEN w
        ELSE IF new_size < size
        THEN [DestroyN(w, GetAddress(w, self), new_size, size - new_size)
                EXCEPT !.vec[self].size_ = new_size]
        ELSE IF w1.thrown THEN w1
        ELSE IF w2.thrown THEN w2
        ELSE [w2 EXCEPT !.vec[self].size_ = new_size]

(* void PopBack() noexcept *)
PopBack(w, self) ==
    [DestroyAt(w, GetAddress(w, self), Size(w, self) - 1)
       EXCEPT !.vec[self].size_ = @ - 1]

(* void Swap(Vector& other) noexcept *)
Swap(w, self, other) ==
    LET sw == RawSwap(w.vec[self].data_, w.vec[other].data_) IN
    [w EXCEPT !.vec[self].data_ = sw[1], !.vec[other].data_ = sw[2],
              !.vec[self].size_ = w.vec[other].size_,
              !.vec[other].size_ = w.vec[self].size_]


(* ~Vector(): destroy_n(data_.GetAddress(), size_), then ~RawMemory(). *)
Destructor(w, self) ==
    LET buf == GetAddress(w, self) IN
    [Deallocate(DestroyN(w, buf, 0, Size(w, self)), buf) EXCEPT !.vec[self] = NoVector]

(* Vector() = default *)
DefaultCtor(w, self) ==
    [w EXCEPT !.vec[self] = [alive |-> TRUE, data_ |-> EmptyRaw, size_ |-> 0]]

(* A sized constructor that allocates and sets size_ but constructs nothing. *)
SizedCtorUnconstructed(w, self, size) ==
    LET al == Allocate(w, size) IN
    IF al.w.thrown THEN al.w
    ELSE [al.w EXCEPT !.vec[self] =
             [alive |-> TRUE,
              data_ |-> [buffer_ |-> al.buf, capacity_ |-> size],
              size_ |-> size]]

(* explicit Vector(size_t size) *)
SizedCtor(w, self, size) ==
    LET al == Allocate(w, size)
        w1 == UninitializedValueConstructN(al.w, al.buf, 0, size)
    IN  IF al.w.thrown THEN al.w
        ELSE IF w1.thrown THEN Deallocate(w1, al.buf)
        ELSE [w1 EXCEPT !.vec[self] =
                 [alive |-> TRUE,
                  data_ |-> [buffer_ |-> al.buf, capacity_ |-> size],
                  size_ |-> size]]

(* A copy constructor that shares the buffer of `other`. *)
CopyCtorShallow(w, self, other) ==
    [w EXCEPT !.vec[self] = [alive |-> TRUE, data_ |-> w.vec[other].data_,
                             size_ |-> w.vec[other].size_]]

(* explicit Vector(const Vector& other) *)
CopyCtor(w, self, other) ==
    LET n == Size(w, other)
        al == Allocate(w, n)
        w1 == UninitializedCopyN(al.w, GetAddress(w, other), 0, n, al.buf, 0)
    IN  IF al.w.thrown THEN al.w
        ELSE IF w1.thrown THEN Deallocate(w1, al.buf)
        ELSE [w1 EXCEPT !.vec[self] =
                 [alive |-> TRUE,
                  data_ |-> [buffer_ |-> al.buf, capacity_ |-> n],
                  size_ |-> n]]

(* A move constructor that forgets `other.size_ = 0`. *)
MoveCtorKeepsSize(w, self, other) ==
    LET mv == RawMoveAssign(EmptyRaw, w.vec[other].data_) IN
    [w EXCEPT !.vec[self] = [alive |-> TRUE, data_ |-> mv[1],
                             size_ |-> w.vec[other].size_],
              !.vec[other].data_ = mv[2]]

(* Vector(Vector&& other) noexcept *)
MoveCtor(w, self, other) ==
    LET mv == RawMoveAssign(EmptyRaw, w.vec[other].data_) IN
    [w EXCEPT !.vec[self] = [alive |-> TRUE, data_ |-> mv[1],
                             size_ |-> w.vec[other].size_],
              !.vec[other].data_ = mv[2],
              !.vec[other].size_ = 0]

(* Vector& operator=(const Vector& rhs), `rhs.size_ > data_.Capacity()`:   *)
(* `Vector rhs_copy(rhs); Swap(rhs_copy);` and rhs_copy's destructor.      *)
CopyAssignRealloc(w, self, rhs) ==
    LET n == Size(w, rhs)
        al == Allocate(w, n)
        w1 == UninitializedCopyN(al.w, GetAddress(w, rhs), 0, n, al.buf, 0)
        sw == RawSwap(w.vec[self].data_, [buffer_ |-> al.buf, capacity_ |-> n])
        old == sw[2].buffer_
    IN  IF al.w.thrown THEN al.w
        ELSE IF w1.thrown THEN Deallocate(w1, al.buf)
        ELSE Deallocate(
                DestroyN([w1 EXCEPT !.vec[self].data_ = sw[1], !.vec[self].size_ = n],
                         old, 0, Size(w, self)),
                old)

(* Vector& operator=(const Vector& rhs), the capacity suffices. *)
CopyAssignInPlace(w, self, rhs) ==
    LET size == Size(w, self)
        rsize == Size(w, rhs)
        buf == GetAddress(w, self)
        rbuf == GetAddress(w, rhs)
        m == IF rsize < size THEN rsize ELSE size
        w1 == CopyN(w, rbuf, 0, m, buf, 0)
        w2 == IF rsize < size
              THEN DestroyN(w1, buf, rsize, size - rsize)
              ELSE UninitializedCopyN(w1, rbuf, size, rsize - size, buf, 0)
    IN  IF w1.thrown THEN w1
        ELSE IF w2.thrown THEN w2
        ELSE [w2 EXCEPT !.vec[self].size_ = rsize]

(* Vector& operator=(const Vector& rhs), this != &rhs *)
CopyAssignment(w, self, rhs) ==
    IF Size(w, rhs) > Capacity(w, self)
    THEN CopyAssignRealloc(w, self, rhs)
    ELSE CopyAssignInPlace(w, self, rhs)

(* Vector& operator=(Vector&& rhs) noexcept *)
MoveAssignment(w, self, rhs) ==
    LET mv == RawMoveAssign(w.vec[self].data_, w.vec[rhs].data_) IN
    [w EXCEPT !.vec[self].data_ = mv[1], !.vec[rhs].data_ = mv[2],
              !.vec[self].size_ = w.vec[rhs].size_,
              !.vec[rhs].size_ = 0]


(* T& operator[](size_t index) noexcept, used to write an element. *)
IndexWrite(w, self, index, val) ==
    AssignValue(RawIndex(Flag(w, ~(index < Size(w, self)), "assert"),
                         Capacity(w, self), index),
                GetAddress(w, self), index, val, TRUE)

(* An EmplaceBack that emplaces at begin(). *)
EmplaceBackAtFront(w, self, val) == Emplace(w, self, 0, val)

(* T& EmplaceBack(Args&&... args): `*Emplace(end(), ...)` *)
EmplaceBack(w, self, val) == Emplace(w, self, Size(w, self), val)

(* void PushBack(const T& value) and PushBack(S&& value) *)
PushBack(w, self, val) == EmplaceBack(w, self, val)

(* iterator Insert(const_iterator pos, const T& value) and (pos, T&& value) *)
Insert(w, self, offset, val) == Emplace(w, self, offset, val)

(***************************************************************************)
(* The state machine.                                                      *)
(*   vec       the Vector objects A and B                                  *)
(*   heap      the allocated buffers; <<>> is a free address               *)
(*   traits    the traits of the element type T                            *)
(*   appended  for a Vector that was default-constructed and then only     *)
(*             appended to: the values appended, in order                  *)
(*   last      the record of the observed call.  Any one call of a run     *)
(*             can be the observed one: its arguments, the injected        *)
(*             failure, how it ended, the violations it committed, the     *)
(*             iterator it returned and the state it started from are      *)
(*             recorded, and the run is followed no further (the same      *)
(*             call, unobserved, continues it).                            *)
(***************************************************************************)
NoLog == [valid |-> FALSE, log |-> <<>>]

NoCall == [op |-> "none"]

Init ==
    /\ vec = [v \in Vec |-> IF v = "A"
                            THEN [alive |-> TRUE, data_ |-> EmptyRaw, size_ |-> 0]
                            ELSE NoVector]
    /\ heap = [a \in Addr |-> <<>>]
    /\ traits \in [nothrow_move : BOOLEAN, copyable : BOOLEAN]
    /\ last = NoCall
    /\ appended = [v \in Vec |-> IF v = "A" THEN [valid |-> TRUE, log |-> <<>>] ELSE NoLog]

Running == last = NoCall

Alive(v) == vec[v].alive

NextLog(op, self, other, val, result, v) ==
    IF result = "crash" THEN appended[v]
    ELSE IF v = self
    THEN IF op = "DefaultCtor" THEN [valid |-> TRUE, log |-> <<>>]
         ELSE IF op = "PushBack" /\ result = "ok" /\ appended[v].valid
         THEN [valid |-> TRUE, log |-> Append(appended[v].log, val)]
         ELSE NoLog
    ELSE IF v = other /\ op \in {"MoveCtor", "MoveAssign", "Swap"} THEN NoLog
    ELSE appended[v]

(* No operation reads a slot at or beyond size_ before constructing into   *)
(* it, so of such a slot only whether an object lives in it is kept.       *)
ForgetSlot(s) == [live |-> s.live, val |-> IF s.live THEN "leaked" ELSE "raw"]

Forget(w) ==
    [a \in Addr |->
        [i \in 1 .. Len(w.h[a]) |->
            IF \E v \in Vec : w.vec[v].data_.buffer_ = a /\ i > w.vec[v].size_
            THEN ForgetSlot(w.h[a][i])
            ELSE w.h[a][i]]]

(* Addresses are only compared for equality, so a state is kept up to a    *)
(* renaming of the addresses: the buffers are numbered in the order of     *)
(* the Vectors that own them, unowned ones after them.                     *)
AddrKey(w, a) ==
    IF w.vec["A"].data_.buffer_ = a THEN 0
    ELSE IF \E v \in Vec : w.vec[v].data_.buffer_ = a THEN 1
    ELSE 1 + a

Rank(w, a) ==
    IF a = Null \/ w.h[a] = <<>> THEN Null
    ELSE 1 + Cardinality({b \in Addr : w.h[b] # <<>> /\ AddrKey(w, b) < AddrKey(w, a)})

RenamedHeap(w, h) ==
    [a \in Addr |-> IF \E b \in Addr : Rank(w, b) = a
                    THEN h[CHOOSE b \in Addr : Rank(w, b) = a]
                    ELSE <<>>]

RenamedVec(w) ==
    [v \in Vec |-> [w.vec[v] EXCEPT !.data_.buffer_ = Rank(w, @)]]

(* The call ends: normally, by an exception, or, where it committed        *)
(* undefined behaviour or failed an assertion, possibly by aborting the    *)
(* program.  The observed call keeps the state exactly as the call left    *)
(* it; a run that goes on keeps it up to what no later call can tell.      *)
Commit(op, self, other, pos, val, n, f, limit, w) ==
    /\ \A v \in Vec : w.vec[v].data_.capacity_ <= limit
    /\ \E how \in {"on", "observed"}
                  \cup (IF w.errs \cap Undefined = {} THEN {} ELSE {"crash"}) :
        LET result == IF how = "crash" THEN "crash"
                      ELSE IF w.thrown THEN "throw" ELSE "ok" IN
        /\ vec' = CASE how = "on" -> RenamedVec(w)
                    [] how = "observed" -> w.vec
                    [] how = "crash" -> vec
        /\ heap' = CASE how = "on" -> RenamedHeap(w, Forget(w))
                     [] how = "observed" -> w.h
                     [] how = "crash" -> heap
        /\ last' = IF how = "on" THEN NoCall
                   ELSE [op |-> op, self |-> self, other |-> other, pos |-> pos,
                         val |-> val, n |-> n, f |-> f, result |-> result,
                         errs |-> w.errs,
                         ret |-> IF result = "ok" THEN w.ret ELSE NoRet,
                         vec |-> vec, heap |-> heap]
        /\ appended' = [v \in Vec |-> NextLog(op, self, other, val, result, v)]
    /\ UNCHANGED traits

(* The number of element operations of a run that can throw. *)
TickBudget == MaxCap + 3
Ticks(Run(_)) == TickBudget - Run(Start(TickBudget)).f

(* One call: without an exception, or with the f-th element operation      *)
(* that can throw throwing.                                                *)
Call(op, self, other, pos, val, n, limit, Run(_)) ==
    \E f \in 0 .. Ticks(Run) :
        Commit(op, self, other, pos, val, n, f, limit, Run(Start(f)))

DoDefaultCtor(self, limit) ==
    /\ Running /\ ~Alive(self)
    /\ Call("DefaultCtor", self, "-", 0, "-", 0, limit, LAMBDA w : DefaultCtor(w, self))

DoSizedCtor(self, limit) ==
    \E n \in 0 .. limit :
        /\ Running /\ ~Alive(self)
        /\ Call("SizedCtor", self, "-", 0, "-", n, limit, LAMBDA w : SizedCtor(w, self, n))

DoDestructor(self, limit) ==
    /\ Running /\ Alive(self)
    /\ Call("Destructor", self, "-", 0, "-", 0, limit, LAMBDA w : Destructor(w, self))

DoPushBack(self, limit) ==
    \E val \in Val :
        /\ Running /\ Alive(self)
        /\ Call("PushBack", self, "-", vec[self].size_, val, 0, limit,
                LAMBDA w : PushBack(w, self, val))

DoInsert(self, limit) ==
    \E val \in Val, pos \in 0 .. vec[self].size_ :
        /\ Running /\ Alive(self)
        /\ Call("Insert", self, "-", pos, val, 0, limit, LAMBDA w : Insert(w, self, pos, val))

DoErase(self, limit) ==
    \E pos \in 0 .. (vec[self].size_ - 1) :
        /\ Running /\ Alive(self)
        /\ Call("Erase", self, "-", pos, "-", 0, limit, LAMBDA w : Erase(w, self, pos))

DoPopBack(self, limit) ==
    /\ Running /\ Alive(self) /\ vec[self].size_ > 0
    /\ Call("PopBack", self, "-", 0, "-", 0, limit, LAMBDA w : PopBack(w, self))

DoResize(self, limit) ==
    \E n \in 0 .. limit :
        /\ Running /\ Alive(self)
        /\ Call("Resize", self, "-", 0, "-", n, limit, LAMBDA w : Resize(w, self, n))

DoReserve(self, limit) ==
    \E n \in 0 .. limit :
        /\ Running /\ Alive(self)
        /\ Call("Reserve", self, "-", 0, "-", n, limit, LAMBDA w : Reserve(w, self, n))

DoIndexWrite(self, limit) ==
    \E val \in Val, index \in 0 .. (vec[self].size_ - 1) :
        /\ Running /\ Alive(self)
        /\ Call("IndexWrite", self, "-", index, val, 0, limit,
                LAMBDA w : IndexWrite(w, self, index, val))

DoCopyCtor(self, other, limit) ==
    /\ Running /\ ~Alive(self) /\ Alive(other) /\ traits.copyable
    /\ Call("CopyCtor", self, other, 0, "-", 0, limit, LAMBDA w : CopyCtor(w, self, other))

DoMoveCtor(self, other, limit) ==
    /\ Running /\ ~Alive(self) /\ Alive(other)
    /\ Call("MoveCtor", self, other, 0, "-", 0, limit, LAMBDA w : MoveCtor(w, self, other))

DoCopyAssign(self, rhs, limit) ==
    /\ Running /\ Alive(self) /\ Alive(rhs) /\ self # rhs /\ traits.copyable
    /\ Call("CopyAssign", self, rhs, 0, "-", 0, limit, LAMBDA w : CopyAssignment(w, self, rhs))

DoMoveAssign(self, rhs, limit) ==
    /\ Running /\ Alive(self) /\ Alive(rhs) /\ self # rhs
    /\ Call("MoveAssign", self, rhs, 0, "-", 0, limit, LAMBDA w : MoveAssignment(w, self, rhs))

DoSwap(self, other, limit) ==
    /\ Running /\ Alive(self) /\ Alive(other) /\ self # other
    /\ Call("Swap", self, other, 0, "-", 0, limit, LAMBDA w : Swap(w, self, other))

(* A second call on the Vector of an observed call that returned.  The     *)
(* two calls are observed together: the record keeps the state the first   *)
(* call started from and, as `first`, the arguments of the first call.     *)
Then(op, self, pos, val, n, limit, Run(_)) ==
    \E f \in 0 .. Ticks(Run) :
        LET w == Run(Start(f)) IN
        /\ \A v \in Vec : w.vec[v].data_.capacity_ <= limit
        /\ \E how \in {"observed"}
                      \cup (IF w.errs \cap Undefined = {} THEN {} ELSE {"crash"}) :
            LET result == IF how = "crash" THEN "crash"
                          ELSE IF w.thrown THEN "throw" ELSE "ok" IN
            /\ vec' = IF how = "crash" THEN vec ELSE w.vec
            /\ heap' = IF how = "crash" THEN heap ELSE w.h
            /\ last' = [op |-> op, self |-> self, other |-> "-", pos |-> pos,
                        val |-> val, n |-> n, f |-> f, result |-> result,
                        errs |-> w.errs,
                        ret |-> IF result = "ok" THEN w.ret ELSE NoRet,
                        vec |-> last.vec, heap |-> last.heap,
                        first |-> [op |-> last.op, pos |-> last.pos, n |-> last.n]]
            /\ appended' = [v \in Vec |-> IF v = self THEN NoLog ELSE appended[v]]
        /\ UNCHANGED traits

(* `v.Erase(v.begin() + p); v.Insert(v.begin() + p, x);` with x a copy of   *)
(* the element that was at p.                                              *)
DoReinsert(self, limit) ==
    /\ last.op = "Erase" /\ last.result = "ok" /\ last.self = self
    /\ Then("Reinsert", self, last.pos, last.heap[last.vec[self].data_.buffer_][last.pos + 1].val,
            0, limit,
            LAMBDA w : Insert(w, self, last.pos,
                              last.heap[last.vec[self].data_.buffer_][last.pos + 1].val))

(* `v.Resize(m); v.Resize(n);` with m < n and n the size v had. *)
DoResizeBack(self, limit) ==
    /\ last.op = "Resize" /\ last.result = "ok" /\ last.self = self
    /\ last.n < last.vec[self].size_
    /\ Then("ResizeBack", self, 0, "-", last.vec[self].size_, limit,
            LAMBDA w : Resize(w, self, last.vec[self].size_))

(* The operations on one Vector. *)
Single(self, limit) ==
    \/ DoDefaultCtor(self, limit)
    \/ DoSizedCtor(self, limit)
    \/ DoDestructor(self, limit)
    \/ DoPushBack(self, limit)
    \/ DoInsert(self, limit)
    \/ DoErase(self, limit)
    \/ DoPopBack(self, limit)
    \/ DoResize(self, limit)
    \/ DoReserve(self, limit)
    \/ DoIndexWrite(self, limit)
    \/ DoReinsert(self, limit)
    \/ DoResizeBack(self, limit)

(* The operations that involve a second Vector. *)
Binary(self, other, limit) ==
    \/ DoCopyCtor(self, other, limit)
    \/ DoMoveCtor(self, other, limit)
    \/ DoCopyAssign(self, other, limit)
    \/ DoMoveAssign(self, other, limit)
    \/ DoSwap(self, other, limit)

(***************************************************************************)
(* A program that uses RawMemory<T> objects directly.  The objects A and B *)
(* are the `data_` of vec[A] and vec[B]; no element is ever constructed.   *)
(***************************************************************************)

(* The end of a call on RawMemory objects; the state is kept as it is. *)
RawCommit(op, self, other, n, f, w) ==
    /\ \E how \in {"on", "observed"}
                  \cup (IF w.errs \cap Undefined = {} THEN {} ELSE {"crash"}) :
        LET result == IF how = "crash" THEN "crash"
                      ELSE IF w.thrown THEN "throw" ELSE "ok" IN
        /\ vec' = IF how = "crash" THEN vec ELSE w.vec
        /\ heap' = IF how = "crash" THEN heap ELSE w.h
        /\ last' = IF how = "on" THEN NoCall
                   ELSE [op |-> op, self |-> self, other |-> other, pos |-> 0,
                         val |-> "-", n |-> n, f |-> f, result |-> result,
                         errs |-> w.errs, ret |-> NoRet, vec |-> vec, heap |-> heap]
    /\ UNCHANGED <<traits, appended>>

RawObject(data) == [alive |-> TRUE, data_ |-> data, size_ |-> 0]

(* RawMemory() = default *)
DoRawDefaultCtor(self) ==
    /\ Running /\ ~Alive(self)
    /\ RawCommit("RawDefaultCtor", self, "-", 0, 0,
                 [Start(0) EXCEPT !.vec[self] = RawObject(EmptyRaw)])

(* explicit RawMemory(size_t capacity) *)
DoRawCtor(self) ==
    \E n \in 0 .. MaxCap, f \in 0 .. 1 :
        LET al == Allocate(Start(f), n) IN
        /\ Running /\ ~Alive(self)
        /\ f = 1 => n > 0
        /\ RawCommit("RawCtor", self, "-", n, f,
                     IF al.w.thrown THEN al.w
                     ELSE [al.w EXCEPT !.vec[self] =
                              RawObject([buffer_ |-> al.buf, capacity_ |-> n])])

(* RawMemory(RawMemory&& other) noexcept *)
DoRawMoveCtor(self, other) ==
    /\ Running /\ ~Alive(self) /\ Alive(other)
    /\ RawCommit("RawMoveCtor", self, other, 0, 0,
                 [Start(0) EXCEPT !.vec[self] = RawObject(RawMoveCtor(vec[other].data_)[1]),
                                  !.vec[other].data_ = RawMoveCtor(vec[other].data_)[2]])

(* RawMemory& operator=(RawMemory&& rhs) noexcept *)
DoRawMoveAssign(self, rhs) ==
    /\ Running /\ Alive(self) /\ Alive(rhs) /\ self # rhs
    /\ RawCommit("RawMoveAssign", self, rhs, 0, 0,
                 [Start(0) EXCEPT !.vec[self].data_ =
                                      RawMoveAssign(vec[self].data_, vec[rhs].data_)[1],
                                  !.vec[rhs].data_ =
                                      RawMoveAssign(vec[self].data_, vec[rhs].data_)[2]])

(* void RawMemory::Swap(RawMemory& other) noexcept *)
DoRawSwap(self, other) ==
    /\ Running /\ Alive(self) /\ Alive(other) /\ self # other
    /\ RawCommit("RawSwap", self, other, 0, 0,
                 [Start(0) EXCEPT !.vec[self].data_ =
                                      RawSwap(vec[self].data_, vec[other].data_)[1],
                                  !.vec[other].data_ =
                                      RawSwap(vec[self].data_, vec[other].data_)[2]])

(* ~RawMemory(): Deallocate(buffer_) *)
DoRawDtor(self) ==
    /\ Running /\ Alive(self)
    /\ RawCommit("RawDtor", self, "-", 0, 0,
                 [Deallocate(Start(0), vec[self].data_.buffer_) EXCEPT !.vec[self] = NoVector])

NextRaw ==
    \/ \E self \in Vec : DoRawDefaultCtor(self) \/ DoRawCtor(self) \/ DoRawDtor(self)
    \/ \E self \in Vec, other \in Vec :
          DoRawMoveCtor(self, other) \/ DoRawMoveAssign(self, other) \/ DoRawSwap(self, other)

SpecRaw == Init /\ [][NextRaw]_vars

(* A program with the one Vector A. *)
Next == Single("A", MaxCap)

Spec == Init /\ [][Next]_vars

(* A program with the two Vectors A and B. *)
NextPair ==
    \/ \E self \in Vec : Single(self, PairCap)
    \/ \E self \in Vec, other \in Vec : Binary(self, other, PairCap)

SpecPair == Init /\ [][NextPair]_vars


(***************************************************************************)
(* What the claims speak of.                                               *)
(***************************************************************************)

(* The elements of Vector v in the state (vv, h): the values held at the   *)
(* indices [0, size_).                                                     *)
ElementsOf(vv, h, v) ==
    IF vv[v].size_ = 0 THEN <<>>
    ELSE [i \in 1 .. vv[v].size_ |-> h[vv[v].data_.buffer_][i].val]

Elements(v) == ElementsOf(vec, heap, v)
OldElements(v) == ElementsOf(last.vec, last.heap, v)

(* The cells of the buffer a Vector holds. *)
CellsOf(vv, h, v) ==
    IF vv[v].data_.buffer_ = Null THEN <<>> ELSE h[vv[v].data_.buffer_]

(* size_ <= Capacity(), objects live exactly in the slots [0, size_). *)
LiveRangeIn(vv, h) ==
    \A v \in Vec :
        vv[v].alive =>
            /\ vv[v].size_ <= vv[v].data_.capacity_
            /\ Len(CellsOf(vv, h, v)) = vv[v].data_.capacity_
            /\ \A i \in 1 .. vv[v].data_.capacity_ :
                   CellsOf(vv, h, v)[i].live <=> i <= vv[v].size_

Observed == last.op # "none"
Returned == Observed /\ last.result = "ok"
Threw == Observed /\ last.result = "throw"

InsertAt(seq, p, x) ==
    [i \in 1 .. (Len(seq) + 1) |->
        IF i <= p THEN seq[i] ELSE IF i = p + 1 THEN x ELSE seq[i - 1]]

RemoveAt(seq, p) ==
    [i \in 1 .. (Len(seq) - 1) |-> IF i <= p THEN seq[i] ELSE seq[i + 1]]

OldSize(v) == last.vec[v].size_
OldCapacity(v) == last.vec[v].data_.capacity_
OldAddress(v) == last.vec[v].data_.buffer_

(* Vector v and the buffer it held are as they were before the call. *)
Untouched(v) ==
    /\ vec[v] = last.vec[v]
    /\ CellsOf(vec, heap, v) = CellsOf(last.vec, last.heap, v)

(* C1: after a call that returned normally from a state in which every     *)
(* Vector had size_ <= Capacity(), a live object in every slot [0, size_)  *)
(* and none in [size_, Capacity()), every Vector is again in such a state. *)
C1_LiveRangeKept ==
    (Returned /\ LiveRangeIn(last.vec, last.heap)) => LiveRangeIn(vec, heap)

(* C2: copy-assignment a = b with b.Size() <= a.Capacity(), from a state   *)
(* with well-formed live ranges: a has b's size and elements, keeps its    *)
(* capacity and storage, and b is unchanged.                               *)
C2_CopyAssignReusesStorage ==
    (/\ Returned /\ last.op = "CopyAssign"
     /\ LiveRangeIn(last.vec, last.heap)
     /\ OldSize(last.other) <= OldCapacity(last.self))
    => /\ vec[last.self].size_ = OldSize(last.other)
       /\ Elements(last.self) = OldElements(last.other)
       /\ vec[last.self].data_ = last.vec[last.self].data_
       /\ Untouched(last.other)

(* C3: move-assignment a = std::move(b) never fails, gives a the length,   *)
(* capacity and elements b had, and leaves b with size 0 and no live       *)
(* object in its storage.                                                  *)
C3_MoveAssignLeavesSourceEmpty ==
    (Observed /\ last.op = "MoveAssign" /\ LiveRangeIn(last.vec, last.heap))
    => /\ last.result = "ok"
       /\ vec[last.self].size_ = OldSize(last.other)
       /\ vec[last.self].data_.capacity_ = OldCapacity(last.other)
       /\ Elements(last.self) = OldElements(last.other)
       /\ vec[last.other].size_ = 0
       /\ \A i \in 1 .. Len(CellsOf(vec, heap, last.other)) :
              ~CellsOf(vec, heap, last.other)[i].live

(* C4: no call destroys a slot that holds no live object, constructs into  *)
(* a slot that holds one, assigns to or reads a slot that holds none, or   *)
(* releases storage in which an object is still alive.                     *)
LifetimeViolations ==
    {"destroy_dead", "construct_live", "assign_dead", "read_dead", "release_live"}

C4_EachElementDestroyedOnce ==
    Observed => last.errs \cap LifetimeViolations = {}

(* The claim's case of C5: an insertion that found Size() == Capacity()    *)
(* and failed while transferring the old elements (the allocation is the   *)
(* first operation that can throw, the new element's constructor the       *)
(* second).                                                                *)
TransferFailed ==
    /\ Threw /\ last.op \in {"Insert", "PushBack"}
    /\ OldSize(last.self) = OldCapacity(last.self)
    /\ last.f > 2

(* The Vector, its elements and the whole heap are as before the call,     *)
(* and nothing was destroyed twice or released alive.                      *)
RolledBack ==
    /\ vec = last.vec
    /\ heap = last.heap
    /\ last.errs \cap {"destroy_dead", "release_live", "construct_live"} = {}

(* C5: as claimed, for every element type: a growth-triggered insertion    *)
(* whose transfer fails leaves the Vector unchanged.                       *)
C5_StrongGuaranteeAnyType == TransferFailed => RolledBack

(* C5, amended: the same for an element type that is copy-constructible    *)
(* or whose move constructor cannot throw.                                 *)
C5_StrongGuarantee ==
    (TransferFailed /\ (traits.copyable \/ traits.nothrow_move)) => RolledBack

(* C5's case: the copy of the second element of the suffix throws. *)
C5_Witness ==
    /\ TransferFailed /\ traits.copyable /\ last.op = "Insert"
    /\ last.pos = 0 /\ OldSize(last.self) = 2 /\ last.f = 4
    /\ RolledBack

(* The capacity after k appends to a default-constructed Vector. *)
RECURSIVE CapacityAfter(_)
CapacityAfter(k) ==
    IF k = 0 THEN 0
    ELSE LET c == CapacityAfter(k - 1) IN
         IF k - 1 = c THEN (IF 2 * c > 1 THEN 2 * c ELSE 1) ELSE c

(* C6: a Vector default-constructed and then appended to k times has       *)
(* size k, the appended values in order and the capacity the doubling      *)
(* rule gives; an insertion that returns reallocates exactly when it found *)
(* Size() == Capacity(), and then to max(1, 2 * Capacity()).               *)
C6_AppendGrowth ==
    /\ \A v \in Vec :
          appended[v].valid =>
              /\ vec[v].size_ = Len(appended[v].log)
              /\ Elements(v) = appended[v].log
              /\ vec[v].data_.capacity_ = CapacityAfter(Len(appended[v].log))
    /\ (Returned /\ last.op \in {"Insert", "PushBack"}) =>
          IF OldSize(last.self) = OldCapacity(last.self)
          THEN /\ vec[last.self].data_.buffer_ # OldAddress(last.self)
               /\ vec[last.self].data_.capacity_ =
                      (IF 2 * OldCapacity(last.self) > 1
                       THEN 2 * OldCapacity(last.self) ELSE 1)
          ELSE vec[last.self].data_ = last.vec[last.self].data_

(* C6's case: the third append has grown the capacity from 2 to 4. *)
C6_Witness ==
    /\ Returned /\ last.op = "PushBack"
    /\ appended[last.self].valid /\ Len(appended[last.self].log) = 3
    /\ OldCapacity(last.self) = 2 /\ vec[last.self].data_.capacity_ = 4

(* C7: an insertion at p that returns leaves old[0..p), the new element,   *)
(* old[p..size), a size larger by one, returns an iterator to index p of   *)
(* the Vector's storage, and keeps the capacity unless the Vector was full.*)
C7_InsertSequence ==
    (Returned /\ last.op \in {"Insert", "PushBack"}) =>
        /\ Elements(last.self) = InsertAt(OldElements(last.self), last.pos, last.val)
        /\ vec[last.self].size_ = OldSize(last.self) + 1
        /\ last.ret = [buf |-> vec[last.self].data_.buffer_, idx |-> last.pos]
        /\ OldSize(last.self) < OldCapacity(last.self) =>
               vec[last.self].data_ = last.vec[last.self].data_

(* C7's case: an insertion in the middle with capacity to spare, with      *)
(* different values on both sides.                                         *)
C7_Witness ==
    /\ Returned /\ last.op = "Insert"
    /\ last.pos = 1 /\ OldSize(last.self) = 3 /\ OldCapacity(last.self) = 4
    /\ OldElements(last.self) = <<"x", "d", "x">> /\ last.val = "x"
    /\ Elements(last.self) = <<"x", "x", "d", "x">>

(* C8: Erase at p, unless an element assignment throws, yields old[0..p)   *)
(* followed by old[p+1..size), a size smaller by one, the same capacity    *)
(* and storage, and an iterator to index p.                                *)
C8_EraseSequence ==
    (Observed /\ last.op = "Erase" /\ last.result # "throw") =>
        /\ last.result = "ok"
        /\ Elements(last.self) = RemoveAt(OldElements(last.self), last.pos)
        /\ vec[last.self].size_ = OldSize(last.self) - 1
        /\ vec[last.self].data_ = last.vec[last.self].data_
        /\ last.ret = [buf |-> vec[last.self].data_.buffer_, idx |-> last.pos]

(* The calls that change one Vector only. *)
SingleOps ==
    {"PushBack", "Insert", "Erase", "PopBack", "Resize", "Reserve", "IndexWrite"}

(* C9: a copy construction that returns gives the new Vector a buffer of   *)
(* its own with the elements of the source and leaves the source as it     *)
(* was; and a call that changes one Vector leaves the other Vector, its    *)
(* elements, size and capacity as they were.                               *)
C9_CopyIsDeep ==
    /\ (Returned /\ last.op = "CopyCtor") =>
          /\ vec[last.self].size_ = OldSize(last.other)
          /\ Elements(last.self) = OldElements(last.other)
          /\ Untouched(last.other)
          /\ \/ vec[last.self].data_.buffer_ = Null
             \/ last.heap[vec[last.self].data_.buffer_] = <<>>
    /\ (Observed /\ last.op \in SingleOps) =>
          \A v \in Vec \ {last.self} : Untouched(v)

(* C9's case: a has been copied into b, and b is then written to. *)
C9_Witness ==
    /\ Returned /\ last.op = "IndexWrite" /\ last.self = "B"
    /\ vec["A"].alive /\ vec["A"].size_ = 2
    /\ OldElements("B") = Elements("A")
    /\ Elements("B") # Elements("A")
    /\ Untouched("A")

(* C10: move construction gives the new Vector the size, capacity, storage *)
(* and elements of the source, constructs and destroys nothing, and leaves *)
(* the source with size 0.                                                 *)
C10_MoveCtorTakesStorage ==
    (Observed /\ last.op = "MoveCtor") =>
        /\ last.result = "ok"
        /\ vec[last.self].size_ = OldSize(last.other)
        /\ vec[last.self].data_ = last.vec[last.other].data_
        /\ Elements(last.self) = OldElements(last.other)
        /\ heap = last.heap
        /\ vec[last.other].size_ = 0

(* C10's case: a Vector with two elements has been moved from. *)
C10_Witness ==
    /\ Returned /\ last.op = "MoveCtor"
    /\ OldSize(last.other) = 2 /\ vec[last.self].size_ = 2
    /\ vec[last.other].size_ = 0

(* C11: a sized construction Vector(n) that returns gives Size() == n ==    *)
(* Capacity(), n elements all equal to the value-initialised value, and    *)
(* for n == 0 a null storage address.                                      *)
C11_SizedCtor ==
    (Returned /\ last.op = "SizedCtor") =>
        /\ vec[last.self].alive
        /\ vec[last.self].size_ = last.n
        /\ vec[last.self].data_.capacity_ = last.n
        /\ Elements(last.self) = [i \in 1 .. last.n |-> DefaultVal]
        /\ \A i \in 1 .. last.n : CellsOf(vec, heap, last.self)[i].live
        /\ (last.n = 0) => (vec[last.self].data_.buffer_ = Null)
        /\ (last.n > 0) => (vec[last.self].data_.buffer_ # Null)

(* C11's case: Vector(3). *)
C11_Witness ==
    /\ Returned /\ last.op = "SizedCtor" /\ last.n = 3
    /\ Elements(last.self) = <<DefaultVal, DefaultVal, DefaultVal>>

(* The working state of a call made in the state the observed call started *)
(* from, with the same injected failure.                                   *)
Before ==
    [vec |-> last.vec, h |-> last.heap, tr |-> traits, f |-> last.f,
     thrown |-> FALSE, errs |-> {}, ret |-> NoRet]

(* Calls x and y ended alike: both threw or both returned, with the same   *)
(* elements, Size() and Capacity() of Vector v.                            *)
SameOutcome(x, y, v) ==
    /\ x.thrown = y.thrown
    /\ x.vec[v].size_ = y.vec[v].size_
    /\ x.vec[v].data_.capacity_ = y.vec[v].data_.capacity_
    /\ ElementsOf(x.vec, x.h, v) = ElementsOf(y.vec, y.h, v)

Now == [vec |-> vec, h |-> heap, thrown |-> last.result = "throw"]

(* C12: Insert(end(), v) leaves the Vector as PushBack(v) would have left  *)
(* it from the same state, and PushBack(v) as Insert(end(), v) would have: *)
(* the same elements, Size() and Capacity().                               *)
C12_InsertAtEndIsPushBack ==
    /\ (Observed /\ last.op = "Insert" /\ last.pos = OldSize(last.self)
            /\ last.result # "crash") =>
          SameOutcome(Now, PushBack(Before, last.self, last.val), last.self)
    /\ (Observed /\ last.op = "PushBack" /\ last.result # "crash") =>
          SameOutcome(Now, Insert(Before, last.self, OldSize(last.self), last.val),
                      last.self)

(* C12's case: Insert(end(), v) on a Vector with elements, and room or not. *)
C12_Witness ==
    /\ Returned /\ last.op = "Insert" /\ last.pos = OldSize(last.self)
    /\ OldSize(last.self) = 2 /\ OldCapacity(last.self) = 2
    /\ Elements(last.self) = <<"x", "d", "x">>

(* C13: Erase at p of a Vector with well-formed live ranges returns unless *)
(* an element assignment throws, and an insertion at p of a copy of the    *)
(* erased value that then returns restores the elements and Size().        *)
C13_EraseReinsert ==
    /\ (Observed /\ last.op = "Erase" /\ LiveRangeIn(last.vec, last.heap)
            /\ last.result # "throw") => last.result = "ok"
    /\ (Returned /\ last.op = "Reinsert") =>
          /\ Elements(last.self) = OldElements(last.self)
          /\ vec[last.self].size_ = OldSize(last.self)

(* C15: Resize(m) and then Resize(n) on a Vector of size n > m, both       *)
(* returning: elements [0, m) as they were, elements [m, n) value-         *)
(* initialised, Size() == n, capacity and storage unchanged.               *)
C15_ResizeDownUp ==
    (Returned /\ last.op = "ResizeBack") =>
        /\ vec[last.self].size_ = OldSize(last.self)
        /\ vec[last.self].data_ = last.vec[last.self].data_
        /\ Elements(last.self) =
               [i \in 1 .. OldSize(last.self) |->
                   IF i <= last.first.n THEN OldElements(last.self)[i] ELSE DefaultVal]
        /\ \A i \in (last.first.n + 1) .. OldSize(last.self) :
               CellsOf(vec, heap, last.self)[i].live

(* C15's case: [x, x, x] resized to 1 and back to 3. *)
C15_Witness ==
    /\ Returned /\ last.op = "ResizeBack" /\ last.first.n = 1
    /\ OldElements(last.self) = <<"x", "x", "x">>
    /\ Elements(last.self) = <<"x", DefaultVal, DefaultVal>>

(* C14: Reserve(n) with n <= Capacity() returns and changes nothing: the   *)
(* Vector, its storage address and the whole heap are as before, and no    *)
(* element operation was made.  Reserve(n) with n > Capacity() that        *)
(* returns gives Capacity() == n and keeps Size() and the elements.        *)
C14_Reserve ==
    /\ (Observed /\ last.op = "Reserve" /\ last.n <= OldCapacity(last.self)) =>
          /\ last.result = "ok" /\ last.f = 0 /\ last.errs = {}
          /\ vec = last.vec /\ heap = last.heap
    /\ (Returned /\ last.op = "Reserve" /\ last.n > OldCapacity(last.self)) =>
          /\ vec[last.self].data_.capacity_ = last.n
          /\ vec[last.self].size_ = OldSize(last.self)
          /\ Elements(last.self) = OldElements(last.self)

(* C14's case: Reserve(Capacity()) on a Vector with elements. *)
C14_Witness ==
    /\ Returned /\ last.op = "Reserve"
    /\ last.n = 2 /\ OldCapacity(last.self) = 2
    /\ OldElements(last.self) = <<"x", "d">>
    /\ vec = last.vec /\ heap = last.heap

(* A growing Resize(n) that returned: Size() == n, the old elements        *)
(* followed by value-initialised ones, live objects in the new slots.      *)
ResizeGrew ==
    /\ vec[last.self].size_ = last.n
    /\ Elements(last.self) =
           [i \in 1 .. last.n |->
               IF i <= OldSize(last.self) THEN OldElements(last.self)[i] ELSE DefaultVal]
    /\ \A i \in (OldSize(last.self) + 1) .. last.n : CellsOf(vec, heap, last.self)[i].live
    /\ LiveRangeIn(last.vec, last.heap) => LiveRangeIn(vec, heap)

(* A growing Resize(n) that threw: Size() as before and nothing alive      *)
(* beyond it, if that was so before.                                       *)
ResizeFailed ==
    /\ vec[last.self].size_ = OldSize(last.self)
    /\ LiveRangeIn(last.vec, last.heap) => LiveRangeIn(vec, heap)

(* C18, as claimed: a growing Resize(n) that needs more capacity obtains   *)
(* max(1, 2 * Capacity()), and Capacity() >= n afterwards.                 *)
C18_ResizeGrowthPolicy ==
    /\ (Returned /\ last.op = "Resize" /\ last.n > OldSize(last.self)) =>
          /\ vec[last.self].data_.capacity_ >= last.n
          /\ vec[last.self].data_.capacity_ =
                 (IF last.n <= OldCapacity(last.self) THEN OldCapacity(last.self)
                  ELSE IF 2 * OldCapacity(last.self) > 1
                  THEN 2 * OldCapacity(last.self) ELSE 1)
          /\ ResizeGrew
    /\ (Threw /\ last.op = "Resize" /\ last.n > OldSize(last.self)) => ResizeFailed

(* C18, amended: a growing Resize(n) that needs more capacity obtains      *)
(* exactly n through Reserve(n); the rest as claimed.                      *)
C18_ResizeReserves ==
    /\ (Returned /\ last.op = "Resize" /\ last.n > OldSize(last.self)) =>
          /\ vec[last.self].data_.capacity_ =
                 (IF last.n <= OldCapacity(last.self) THEN OldCapacity(last.self)
                  ELSE last.n)
          /\ ResizeGrew
    /\ (Threw /\ last.op = "Resize" /\ last.n > OldSize(last.self)) => ResizeFailed

(* C18's case: Resize(3) of a full Vector of one element reallocates to 3, *)
(* and the second value-initialisation throws.                             *)
C18_Witness ==
    /\ Threw /\ last.op = "Resize" /\ traits.nothrow_move
    /\ OldSize(last.self) = 1 /\ OldCapacity(last.self) = 1 /\ last.n = 3
    /\ last.f = 3
    /\ vec[last.self].data_.capacity_ = 3 /\ vec[last.self].size_ = 1

(* A call that relocates elements (the reallocation of Emplace and of      *)
(* Reserve, also when Resize calls it, and the left shift of Erase) threw  *)
(* and left the Vector with the storage it had.                            *)
RelocationFailed ==
    /\ Threw
    /\ \/ last.op \in {"Insert", "PushBack"} /\ OldSize(last.self) = OldCapacity(last.self)
       \/ last.op \in {"Reserve", "Resize"} /\ last.n > OldCapacity(last.self)
       \/ last.op = "Erase"
    /\ vec[last.self].data_ = last.vec[last.self].data_

(* No element of the original array, which held no moved-from element,    *)
(* was left moved-from by the call.                                        *)
NoneMovedFrom ==
    (\A i \in 1 .. OldSize(last.self) :
        last.heap[OldAddress(last.self)][i].val # MovedVal)
    => (\A i \in 1 .. OldSize(last.self) :
        heap[OldAddress(last.self)][i].val # MovedVal)

C20_AssertionsHold == Observed => "assert" \notin last.errs

(* The RawMemory objects that hold the address a. *)
Owners(a) == {v \in Vec : vec[v].alive /\ vec[v].data_.buffer_ = a}

(* C16: every allocation is owned by exactly one RawMemory and every       *)
(* RawMemory's address is non-null iff its capacity is positive, and is    *)
(* allocated; no buffer is deallocated twice; a move construction and a    *)
(* move assignment give the destination the address and capacity of the    *)
(* source and leave the source null with capacity 0; Swap exchanges them.  *)
C16_RawMemoryOwnership ==
    /\ \A a \in Addr : heap[a] # <<>> => Cardinality(Owners(a)) = 1
    /\ \A v \in Vec :
          vec[v].alive =>
              /\ (vec[v].data_.buffer_ # Null) <=> (vec[v].data_.capacity_ > 0)
              /\ (vec[v].data_.buffer_ # Null) => heap[vec[v].data_.buffer_] # <<>>
    /\ Observed => "double_free" \notin last.errs
    /\ (Returned /\ last.op \in {"RawMoveCtor", "RawMoveAssign"}) =>
          /\ vec[last.self].data_ = last.vec[last.other].data_
          /\ vec[last.other].data_ = EmptyRaw
    /\ (Returned /\ last.op = "RawSwap") =>
          /\ vec[last.self].data_ = last.vec[last.other].data_
          /\ vec[last.other].data_ = last.vec[last.self].data_

(* C17: two Vectors never hold the same non-null storage address, a        *)
(* Vector's address is allocated, no call deallocates a buffer twice, and  *)
(* once both Vectors are destroyed no allocation is left.                  *)
C17_NoSharedStorage ==
    /\ \A u \in Vec, v \in Vec :
          (u # v /\ vec[u].alive /\ vec[v].alive /\ vec[u].data_.buffer_ # Null)
              => vec[u].data_.buffer_ # vec[v].data_.buffer_
    /\ \A v \in Vec :
          (vec[v].alive /\ vec[v].data_.buffer_ # Null) => heap[vec[v].data_.buffer_] # <<>>
    /\ Observed => "double_free" \notin last.errs
    /\ (\A v \in Vec : ~vec[v].alive) => (\A a \in Addr : heap[a] = <<>>)

(* C17's case: a move-assignment between two Vectors that both hold        *)
(* storage; each holds the other's afterwards.                             *)
C17_Witness ==
    /\ Returned /\ last.op = "MoveAssign"
    /\ \A v \in Vec : vec[v].alive /\ vec[v].data_.buffer_ # Null
    /\ vec[last.self].data_.buffer_ = OldAddress(last.other)
    /\ vec[last.other].data_.buffer_ = OldAddress(last.self)
    /\ vec[last.self].data_.buffer_ # vec[last.other].data_.buffer_

====
